---- MODULE Spec2Model ----
(***************************************************************************)
(* Reservation / authorization workflow of the pharmacy marketplace API.   *)
(* The entity store (pharmacies, medicines, reservations) is the state.    *)
(* Every controller is an operator that computes, from the store and the   *)
(* request, the response and the collection it writes; every route is an   *)
(* action that runs one whole request through its controller.              *)
(***************************************************************************)
EXTENDS Integers, FiniteSets, Sequences, TLC

\* ------------------------------------------------------------------ bounds
\* Reservation ids the store can hand out.
MaxReservations == 2

\* ---------------------------------------------------------------- principals
Users == {"c1", "c2", "p1", "p2", "ad"}

role ==
  [u \in Users |->
     CASE u \in {"c1", "c2"} -> "consumer"
       [] u \in {"p1", "p2"} -> "pharmacy"
       [] OTHER -> "admin"]

\* ------------------------------------------------------------------ documents
NULL == [null |-> TRUE]

PharmacyIds == {1, 2}
MedicineIds == {1, 2}
ReservationIds == 1..MaxReservations

\* A value that express-validator's isMongoId() rejects.
BadId == 0

isMongoId(id) == id # BadId

StatusEnum == {"pending", "confirmed", "cancelled"}

\* Request-body statuses: the enum plus one value outside it.
StatusInputs == StatusEnum \cup {"shipped"}

VARIABLES
  pharmacies,      \* Pharmacy collection: id -> document or NULL
  medicines,       \* Medicine collection: id -> document or NULL
  reservations,    \* Reservation collection: id -> document or NULL
  pharmacySeq,     \* number of pharmacy ids handed out so far
  medicineSeq,     \* number of medicine ids handed out so far
  reservationSeq,  \* number of reservation ids handed out so far
  req,             \* the request handled last: its route, req.user, and the
                   \* status in which it found the reservation it addresses
  res,             \* the response sent for it
  retry,           \* the client's withRetry call: its options, loop state and events
  page,            \* the client's Home page: the search box and what submitting it did
  inflight,        \* the requests the server is handling at once: for each
                   \* connection, the await its handler is suspended at
  auth             \* the client's AuthProvider: user, token, localStorage and
                   \* the auth calls that have not settled

vars == <<pharmacies, medicines, reservations, pharmacySeq, medicineSeq, reservationSeq, req, res,
          retry, page, inflight, auth>>

\* The server's state, and the client's.
backend == <<pharmacies, medicines, reservations, pharmacySeq, medicineSeq, reservationSeq, req, res>>
frontend == <<retry, page, auth>>

\* What a step of withRetry, of the Home page, and of the AuthProvider leaves alone.
besidesRetry == <<backend, page, inflight, auth>>
besidesPage == <<backend, retry, inflight, auth>>
besidesAuth == <<backend, retry, page, inflight>>

Request(route, u, was) == [route |-> route, user |-> u, was |-> was]

Json(status, message, data) ==
  [status |-> status, message |-> message, data |-> data]

\* What a controller does: the response, the collection as it leaves it, and the
\* number of ids handed out.
Outcome(response, coll, seq) == [res |-> response, coll |-> coll, seq |-> seq]

\* Model.findById(id)
findById(coll, id) == IF id \in DOMAIN coll THEN coll[id] ELSE NULL

findOnePharmacyNone(u) == {BadId}

\* Pharmacy.findOne({ user: u }): the ids it may answer, BadId standing for null.
\* With several matches MongoDB answers whichever comes first in natural order.
findOnePharmacy(u) ==
  LET owned == {x \in PharmacyIds : pharmacies[x] # NULL /\ pharmacies[x].user = u}
  IN  IF owned = {} THEN {BadId} ELSE owned

\* middleware/auth authorize(...roles)
authorize(u, roles) == role[u] \in roles

\* ------------------------------------------------------------ reservations
existingReservationConfirmed(u, m) ==
  \E r \in ReservationIds :
     /\ reservations[r] # NULL
     /\ reservations[r].user = u
     /\ reservations[r].medicine = m
     /\ reservations[r].status = "confirmed"

\* Reservation.findOne({ user, medicine, status: 'pending' }) # null
existingReservation(u, m) ==
  \E r \in ReservationIds :
     /\ reservations[r] # NULL
     /\ reservations[r].user = u
     /\ reservations[r].medicine = m
     /\ reservations[r].status = "pending"

unavailableNever(medicine) == FALSE

unavailableInverted(medicine) == medicine.availability

\* !medicine.availability
unavailable(medicine) == ~medicine.availability

isRequesterAlways(u, reservation) == TRUE

\* reservation.user.toString() === req.user._id.toString()
isRequester(u, reservation) == reservation.user = u

\* !pharmacy || reservation.pharmacy.toString() !== pharmacy._id.toString()
notServicing(pharmacy, reservation) == pharmacy = BadId \/ reservation.pharmacy # pharmacy

\* The statuses a pharmacy owner may set.
pharmacyStatuses == {"confirmed", "cancelled"}

newReservationAtMedicineId(u, m, medicine) ==
  [user |-> u, medicine |-> m, pharmacy |-> m, status |-> "pending"]

\* Reservation.create({ user, medicine, pharmacy: medicine.pharmacy }); status defaults to 'pending'
newReservation(u, m, medicine) ==
  [user |-> u, medicine |-> m, pharmacy |-> medicine.pharmacy, status |-> "pending"]

setStatusReassigning(reservation, status) ==
  [reservation EXCEPT !.status = status, !.pharmacy = BadId]

setStatusUnlessTerminal(reservation, status) ==
  IF reservation.status = "pending" THEN [reservation EXCEPT !.status = status] ELSE reservation

\* Reservation.findByIdAndUpdate(id, { status }, { new: true })
setStatus(reservation, status) == [reservation EXCEPT !.status = status]

createReservation(u, m) ==
  LET medicine == findById(medicines, m)
      Fail(status, message) == Outcome(Json(status, message, NULL), reservations, reservationSeq)
  IN
  IF ~isMongoId(m) THEN Fail(400, "Validation failed")
  ELSE IF medicine = NULL THEN Fail(404, "Medicine not found")
  ELSE IF unavailable(medicine) THEN Fail(400, "Medicine is not available")
  ELSE IF existingReservation(u, m)
    THEN Fail(400, "You already have a pending reservation for this medicine")
  ELSE LET id == reservationSeq + 1
           reservation == newReservation(u, m, medicine)
       IN  Outcome(Json(201, "", reservation), [reservations EXCEPT ![id] = reservation], id)

\* pharmacy is what Pharmacy.findOne({ user: req.user._id }) answers.
updateReservationStatus(u, id, status, pharmacy) ==
  LET reservation == findById(reservations, id)
      Fail(code, message) == Outcome(Json(code, message, NULL), reservations, reservationSeq)
  IN
  IF status \notin StatusEnum THEN Fail(400, "Validation failed")
  ELSE IF reservation = NULL THEN Fail(404, "Reservation not found")
  ELSE IF role[u] = "consumer" /\ ~isRequester(u, reservation)
    THEN Fail(403, "Not authorized to update this reservation")
  ELSE IF role[u] = "consumer" /\ status # "cancelled"
    THEN Fail(400, "Consumers can only cancel reservations")
  ELSE IF role[u] = "pharmacy" /\ notServicing(pharmacy, reservation)
    THEN Fail(403, "Not authorized to update this reservation")
  ELSE IF role[u] = "pharmacy" /\ status \notin pharmacyStatuses
    THEN Fail(400, "Invalid status for pharmacy update")
  ELSE LET updated == setStatus(reservation, status)
       IN  Outcome(Json(200, "", updated), [reservations EXCEPT ![id] = updated], reservationSeq)

deleteReservation(u, id, pharmacy) ==
  LET reservation == findById(reservations, id)
      Fail(code, message) == Outcome(Json(code, message, NULL), reservations, reservationSeq)
  IN
  IF reservation = NULL THEN Fail(404, "Reservation not found")
  ELSE IF role[u] = "consumer" /\ ~isRequester(u, reservation)
    THEN Fail(403, "Not authorized to delete this reservation")
  ELSE IF role[u] = "pharmacy" /\ notServicing(pharmacy, reservation)
    THEN Fail(403, "Not authorized to delete this reservation")
  ELSE Outcome(Json(200, "Reservation deleted successfully", NULL),
               [reservations EXCEPT ![id] = NULL], reservationSeq)

\* const { status, page = 1, limit = 10 } = req.query
DefaultPage == 1
DefaultLimit == 10

\* No status in req.query.
NoFilter == "any"

Min(a, b) == IF a < b THEN a ELSE b

\* .sort({ createdAt: -1 }): the reservation created last comes first.
RECURSIVE sortByCreatedAtDesc(_)
sortByCreatedAtDesc(ids) ==
  IF ids = {} THEN <<>>
  ELSE LET last == CHOOSE x \in ids : \A y \in ids : y <= x
       IN  <<last>> \o sortByCreatedAtDesc(ids \ {last})

roleQueryOpen(u, pharmacy, reservation) == TRUE

\* The part of the query getReservations builds from the role: query.user for a
\* consumer, query.pharmacy for a pharmacy user, nothing for an admin.
roleQuery(u, pharmacy, reservation) ==
  CASE role[u] = "consumer" -> reservation.user = u
    [] role[u] = "pharmacy" -> reservation.pharmacy = pharmacy
    [] OTHER -> TRUE

\* pharmacy is what Pharmacy.findOne({ user: req.user._id }) answers.
getReservations(u, query, pharmacy) ==
  IF role[u] = "pharmacy" /\ pharmacy = BadId
    THEN Outcome(Json(404, "No pharmacy found for this user", NULL), reservations, reservationSeq)
  ELSE
    LET found == {r \in ReservationIds :
                    /\ reservations[r] # NULL
                    /\ roleQuery(u, pharmacy, reservations[r])
                    /\ query.status # NoFilter => reservations[r].status = query.status}
        sorted == sortByCreatedAtDesc(found)
        skip == (query.page - 1) * query.limit
        paged == SubSeq(sorted, skip + 1, Min(skip + query.limit, Len(sorted)))
    IN  Outcome(Json(200, "", [i \in 1..Len(paged) |-> reservations[paged[i]]]),
                reservations, reservationSeq)

getReservation(u, id, pharmacy) ==
  LET reservation == findById(reservations, id)
      Fail(code, message) == Outcome(Json(code, message, NULL), reservations, reservationSeq)
  IN
  IF reservation = NULL THEN Fail(404, "Reservation not found")
  ELSE IF role[u] = "consumer" /\ ~isRequester(u, reservation)
    THEN Fail(403, "Not authorized to view this reservation")
  ELSE IF role[u] = "pharmacy" /\ pharmacy = BadId
    THEN Fail(403, "Not authorized to view this reservation")
  ELSE IF role[u] = "pharmacy" /\ findById(pharmacies, reservation.pharmacy) = NULL
    THEN Fail(500, "Server error")
  ELSE IF role[u] = "pharmacy" /\ notServicing(pharmacy, reservation)
    THEN Fail(403, "Not authorized to view this reservation")
  ELSE Outcome(Json(200, "", reservation), reservations, reservationSeq)

\* ---------------------------------------------------------------- medicines
\* The fields of a request body that the Medicine / Pharmacy schema stores.
has(body, f) == f \in DOMAIN body

\* findByIdAndUpdate(id, req.body): every schema field present in the body is set.
assign(doc, body) == [f \in DOMAIN doc |-> IF has(body, f) THEN body[f] ELSE doc[f]]

\* validationResult(req).isEmpty() for a body: a body with the field "malformed"
\* stands for one in which a validated field fails its validator.
isEmpty(body) == ~has(body, "malformed")

createMedicine(u, body) ==
  LET pharmacy == findById(pharmacies, body.pharmacy)
      Fail(code, message) == Outcome(Json(code, message, NULL), medicines, medicineSeq)
  IN
  IF ~isEmpty(body) \/ ~isMongoId(body.pharmacy) THEN Fail(400, "Validation failed")
  ELSE IF pharmacy = NULL THEN Fail(404, "Pharmacy not found")
  ELSE IF pharmacy.user # u
    THEN Fail(403, "Not authorized to add medicines to this pharmacy")
  ELSE LET id == medicineSeq + 1
           medicine == assign([pharmacy |-> body.pharmacy, availability |-> TRUE], body)
       IN  Outcome(Json(201, "", medicine), [medicines EXCEPT ![id] = medicine], id)

updateMedicineByAnyone(u, id, body) ==
  LET medicine == findById(medicines, id)
  IN  IF medicine = NULL
        THEN Outcome(Json(404, "Medicine not found", NULL), medicines, medicineSeq)
        ELSE Outcome(Json(200, "", assign(medicine, body)),
                     [medicines EXCEPT ![id] = assign(medicine, body)], medicineSeq)

updateMedicine(u, id, body) ==
  LET medicine == findById(medicines, id)
      pharmacy == IF medicine = NULL THEN NULL ELSE findById(pharmacies, medicine.pharmacy)
      Fail(code, message) == Outcome(Json(code, message, NULL), medicines, medicineSeq)
  IN
  IF ~isEmpty(body) THEN Fail(400, "Validation failed")
  ELSE IF medicine = NULL THEN Fail(404, "Medicine not found")
  ELSE IF pharmacy = NULL THEN Fail(500, "Server error")   \* pharmacy.user of null throws
  ELSE IF pharmacy.user # u THEN Fail(403, "Not authorized to update this medicine")
  ELSE LET updated == assign(medicine, body)
       IN  Outcome(Json(200, "", updated), [medicines EXCEPT ![id] = updated], medicineSeq)

deleteMedicine(u, id) ==
  LET medicine == findById(medicines, id)
      pharmacy == IF medicine = NULL THEN NULL ELSE findById(pharmacies, medicine.pharmacy)
      Fail(code, message) == Outcome(Json(code, message, NULL), medicines, medicineSeq)
  IN
  IF medicine = NULL THEN Fail(404, "Medicine not found")
  ELSE IF pharmacy = NULL THEN Fail(500, "Server error")   \* pharmacy.user of null throws
  ELSE IF pharmacy.user # u THEN Fail(403, "Not authorized to delete this medicine")
  ELSE Outcome(Json(200, "Medicine deleted successfully", NULL),
               [medicines EXCEPT ![id] = NULL], medicineSeq)

\* --------------------------------------------------------------- pharmacies
duplicateLicenseNever(id, license) == FALSE

\* The unique index on license: another document already holds it (E11000).
duplicateLicense(id, license) ==
  \E x \in PharmacyIds : x # id /\ pharmacies[x] # NULL /\ pharmacies[x].license = license

createPharmacy(u, body) ==
  LET Fail(code, message) == Outcome(Json(code, message, NULL), pharmacies, pharmacySeq)
  IN
  IF ~isEmpty(body) \/ ~has(body, "license") THEN Fail(400, "Validation failed")
  ELSE IF findOnePharmacy(u) # {BadId} THEN Fail(400, "User already has a pharmacy")
  ELSE IF duplicateLicense(BadId, body.license) THEN Fail(400, "License number already exists")
  ELSE LET id == pharmacySeq + 1
           pharmacy == [assign([license |-> body.license, verified |-> FALSE, user |-> u], body)
                          EXCEPT !.user = u]
       IN  Outcome(Json(201, "", pharmacy), [pharmacies EXCEPT ![id] = pharmacy], id)

updatePharmacyByAnyone(u, id, body) ==
  LET pharmacy == findById(pharmacies, id)
  IN  IF pharmacy = NULL
        THEN Outcome(Json(404, "Pharmacy not found", NULL), pharmacies, pharmacySeq)
        ELSE Outcome(Json(200, "", assign(pharmacy, body)),
                     [pharmacies EXCEPT ![id] = assign(pharmacy, body)], pharmacySeq)

updatePharmacy(u, id, body) ==
  LET pharmacy == findById(pharmacies, id)
      Fail(code, message) == Outcome(Json(code, message, NULL), pharmacies, pharmacySeq)
  IN
  IF ~isEmpty(body) THEN Fail(400, "Validation failed")
  ELSE IF pharmacy = NULL THEN Fail(404, "Pharmacy not found")
  ELSE IF pharmacy.user # u /\ role[u] # "admin"
    THEN Fail(403, "Not authorized to update this pharmacy")
  ELSE IF has(body, "license") /\ duplicateLicense(id, body.license)
    THEN Fail(400, "License number already exists")
  ELSE LET updated == assign(pharmacy, body)
       IN  Outcome(Json(200, "", updated), [pharmacies EXCEPT ![id] = updated], pharmacySeq)

deletePharmacy(u, id) ==
  LET pharmacy == findById(pharmacies, id)
      Fail(code, message) == Outcome(Json(code, message, NULL), pharmacies, pharmacySeq)
  IN
  IF pharmacy = NULL THEN Fail(404, "Pharmacy not found")
  ELSE IF pharmacy.user # u /\ role[u] # "admin"
    THEN Fail(403, "Not authorized to delete this pharmacy")
  ELSE Outcome(Json(200, "Pharmacy deleted successfully", NULL),
               [pharmacies EXCEPT ![id] = NULL], pharmacySeq)

\* A path segment as the ObjectId it is cast to, BadId when the cast fails.
castObjectId(segment) ==
  CASE segment = "1" -> 1
    [] segment = "2" -> 2
    [] OTHER -> BadId

\* getPharmacy: Pharmacy.findById throws a CastError for an id that is no ObjectId.
getPharmacy(segment) ==
  LET id == castObjectId(segment)
      pharmacy == findById(pharmacies, id)
      Fail(code, message) == Outcome(Json(code, message, NULL), pharmacies, pharmacySeq)
  IN
  IF id = BadId THEN Fail(500, "Server error")
  ELSE IF pharmacy = NULL THEN Fail(404, "Pharmacy not found")
  ELSE Outcome(Json(200, "", pharmacy), pharmacies, pharmacySeq)

\* pharmacy is what Pharmacy.findOne({ user: req.user._id }) answers.
getMyPharmacy(u, pharmacy) ==
  IF pharmacy = BadId
    THEN Outcome(Json(404, "No pharmacy found for this user", NULL), pharmacies, pharmacySeq)
    ELSE Outcome(Json(200, "", pharmacies[pharmacy]), pharmacies, pharmacySeq)

\* ------------------------------------------------------------------- routes
\* The GET layers of the pharmacy router that take a path of one segment, in
\* the order they are registered.
router ==
  << [path |-> <<":id">>, handler |-> "getPharmacy"],
     [path |-> <<"mypharmacy">>, handler |-> "getMyPharmacy"] >>

\* A layer matches a path segment by segment; a parameter matches any segment.
matches(path, url) ==
  /\ Len(path) = Len(url)
  /\ \A i \in 1..Len(path) : path[i] = ":id" \/ path[i] = url[i]

\* Express hands the request to the first layer that matches.
dispatch(url) ==
  LET hits == {i \in 1..Len(router) : matches(router[i].path, url)}
  IN  IF hits = {} THEN "none"
      ELSE router[CHOOSE i \in hits : \A j \in hits : i <= j].handler

\* authorize(...) answering 403 before the controller runs.
Denied == Json(403, "Not authorized to access this route", NULL)

\* The stored status of reservation id, "none" when there is no such reservation.
statusOf(id) ==
  IF id \in ReservationIds /\ reservations[id] # NULL THEN reservations[id].status ELSE "none"

ReservationRouteTakingStock(route, u, id, out) ==
  /\ out.seq \in {reservationSeq} \cup ReservationIds
  /\ req' = Request(route, u, statusOf(id))
  /\ res' = out.res
  /\ reservations' = out.coll
  /\ reservationSeq' = out.seq
  /\ medicines' = [m \in MedicineIds |->
                     IF medicines[m] = NULL \/ out.res.status >= 400 THEN medicines[m]
                     ELSE [medicines[m] EXCEPT !.availability = FALSE]]
  /\ UNCHANGED <<pharmacies, pharmacySeq, medicineSeq>>
  /\ UNCHANGED <<frontend, inflight>>

\* One request through a reservation route: out is what the controller does.
ReservationRoute(route, u, id, out) ==
  /\ out.seq \in {reservationSeq} \cup ReservationIds
  /\ req' = Request(route, u, statusOf(id))
  /\ res' = out.res
  /\ reservations' = out.coll
  /\ reservationSeq' = out.seq
  /\ UNCHANGED <<pharmacies, medicines, pharmacySeq, medicineSeq>>
  /\ UNCHANGED <<frontend, inflight>>

MedicineRoute(route, u, out) ==
  /\ out.seq \in {medicineSeq} \cup MedicineIds
  /\ req' = Request(route, u, "none")
  /\ res' = out.res
  /\ medicines' = out.coll
  /\ medicineSeq' = out.seq
  /\ UNCHANGED <<pharmacies, reservations, pharmacySeq, reservationSeq>>
  /\ UNCHANGED <<frontend, inflight>>

PharmacyRoute(route, u, out) ==
  /\ out.seq \in {pharmacySeq} \cup PharmacyIds
  /\ req' = Request(route, u, "none")
  /\ res' = out.res
  /\ pharmacies' = out.coll
  /\ pharmacySeq' = out.seq
  /\ UNCHANGED <<medicines, reservations, medicineSeq, reservationSeq>>
  /\ UNCHANGED <<frontend, inflight>>

\* POST /api/reservations: protect, authorize('consumer'), createReservation
PostReservation(u, m) ==
  ReservationRoute("POST /api/reservations", u, BadId,
    IF authorize(u, {"consumer"}) THEN createReservation(u, m)
    ELSE Outcome(Denied, reservations, reservationSeq))

\* PUT /api/reservations/:id: protect, updateReservationStatus
PutReservation(u, id, status) ==
  \E pharmacy \in findOnePharmacy(u) :
    ReservationRoute("PUT /api/reservations/:id", u, id, updateReservationStatus(u, id, status, pharmacy))

\* DELETE /api/reservations/:id: protect, deleteReservation
DeleteReservation(u, id) ==
  \E pharmacy \in findOnePharmacy(u) :
    ReservationRoute("DELETE /api/reservations/:id", u, id, deleteReservation(u, id, pharmacy))

\* POST /api/medicines: protect, authorize('pharmacy'), createMedicine
PostMedicine(u, body) ==
  MedicineRoute("POST /api/medicines", u,
    IF authorize(u, {"pharmacy"}) THEN createMedicine(u, body)
    ELSE Outcome(Denied, medicines, medicineSeq))

\* PUT /api/medicines/:id: protect, updateMedicine
PutMedicine(u, id, body) ==
  MedicineRoute("PUT /api/medicines/:id", u, updateMedicine(u, id, body))

\* DELETE /api/medicines/:id: protect, deleteMedicine
DeleteMedicine(u, id) ==
  MedicineRoute("DELETE /api/medicines/:id", u, deleteMedicine(u, id))

\* POST /api/pharmacies: protect, authorize('pharmacy'), createPharmacy
PostPharmacy(u, body) ==
  PharmacyRoute("POST /api/pharmacies", u,
    IF authorize(u, {"pharmacy"}) THEN createPharmacy(u, body)
    ELSE Outcome(Denied, pharmacies, pharmacySeq))

\* PUT /api/pharmacies/:id: protect, updatePharmacy
PutPharmacy(u, id, body) ==
  PharmacyRoute("PUT /api/pharmacies/:id", u, updatePharmacy(u, id, body))

\* DELETE /api/pharmacies/:id: protect, deletePharmacy
DeletePharmacy(u, id) ==
  PharmacyRoute("DELETE /api/pharmacies/:id", u, deletePharmacy(u, id))

\* GET /api/reservations: protect, getReservations
GetReservations(u, query) ==
  \E pharmacy \in findOnePharmacy(u) :
    ReservationRoute("GET /api/reservations", u, BadId, getReservations(u, query, pharmacy))

\* GET /api/reservations/:id: protect, getReservation
GetReservation(u, id) ==
  \E pharmacy \in findOnePharmacy(u) :
    ReservationRoute("GET /api/reservations/:id", u, id, getReservation(u, id, pharmacy))

\* GET /api/pharmacies/<segment>: the handler the router dispatches to;
\* getPharmacy is public, getMyPharmacy is behind protect, authorize('pharmacy').
GetPharmacy(u, segment) ==
  \E pharmacy \in findOnePharmacy(u) :
    PharmacyRoute("GET /api/pharmacies/" \o segment, u,
      CASE dispatch(<<segment>>) = "getPharmacy" -> getPharmacy(segment)
        [] dispatch(<<segment>>) = "getMyPharmacy" ->
             IF authorize(u, {"pharmacy"}) THEN getMyPharmacy(u, pharmacy)
             ELSE Outcome(Denied, pharmacies, pharmacySeq)
        [] OTHER -> Outcome(Json(404, "Cannot GET", NULL), pharmacies, pharmacySeq))

\* ------------------------------------------- requests handled concurrently
\* Node runs one handler at a time, but a handler gives way at every await:
\* between two awaits of one request, steps of another request may run.
Connections == {1, 2}

\* A connection on which no request has arrived.
listening ==
  [pc |-> "listening", route |-> "none", user |-> "ad", id |-> BadId, status |-> "none",
   found |-> NULL, res |-> NULL]

Handling(p) == inflight[p].pc \notin {"listening", "responded"}

uniqueIndexOnPending(u, m) == existingReservation(u, m)

\* reservationSchema.index(...): none of the indexes is unique, so an insert is
\* never refused for the documents already stored.
uniqueIndex(u, m) == FALSE

\* What a step of a handler leaves alone besides the collections.
besidesInflight == <<req, res, frontend>>

\* res.status(...).json(...): the handler ends.
respond(p, response) ==
  inflight' = [inflight EXCEPT ![p].pc = "responded", ![p].res = response]

\* The handler is suspended at the next await, holding the document it has read.
await(p, pc, found) ==
  inflight' = [inflight EXCEPT ![p].pc = pc, ![p].found = found]

\* A request arrives: the middleware and the validation run, and the handler
\* is suspended at its first query.
receive(p, route, u, id, status) ==
  /\ ~Handling(p)
  /\ route = "POST /api/reservations" =>
       reservationSeq + Cardinality({q \in Connections :
                          Handling(q) /\ inflight[q].route = route}) < MaxReservations
  /\ LET request == [listening EXCEPT !.route = route, !.user = u, !.id = id, !.status = status]
     IN  inflight' =
           [inflight EXCEPT ![p] =
              IF route = "POST /api/reservations" /\ ~authorize(u, {"consumer"})
                THEN [request EXCEPT !.pc = "responded", !.res = Denied]
              ELSE IF \/ route = "POST /api/reservations" /\ ~isMongoId(id)
                      \/ route = "PUT /api/reservations/:id" /\ status \notin StatusEnum
                THEN [request EXCEPT !.pc = "responded",
                                     !.res = Json(400, "Validation failed", NULL)]
              ELSE [request EXCEPT !.pc = "findById"]]
  /\ UNCHANGED <<pharmacies, medicines, reservations, pharmacySeq, medicineSeq, reservationSeq>>
  /\ UNCHANGED besidesInflight

\* await Medicine.findById(medicineId) in createReservation, and
\* await Reservation.findById(req.params.id) in the two other handlers,
\* with the checks that follow up to the next await.
awaitFindById(p) ==
  LET r == inflight[p]
      medicine == findById(medicines, r.id)
      reservation == findById(reservations, r.id)
      verb == IF r.route = "PUT /api/reservations/:id" THEN "update" ELSE "delete"
  IN
  /\ r.pc = "findById"
  /\ IF r.route = "POST /api/reservations"
       THEN IF medicine = NULL THEN respond(p, Json(404, "Medicine not found", NULL))
            ELSE IF unavailable(medicine)
              THEN respond(p, Json(400, "Medicine is not available", NULL))
            ELSE await(p, "findOne", medicine)
       ELSE IF reservation = NULL THEN respond(p, Json(404, "Reservation not found", NULL))
            ELSE IF role[r.user] = "consumer" /\ ~isRequester(r.user, reservation)
              THEN respond(p, Json(403, "Not authorized to " \o verb \o " this reservation", NULL))
            ELSE IF role[r.user] = "consumer" /\ verb = "update" /\ r.status # "cancelled"
              THEN respond(p, Json(400, "Consumers can only cancel reservations", NULL))
            ELSE IF role[r.user] = "pharmacy" THEN await(p, "findOnePharmacy", reservation)
            ELSE await(p, IF verb = "update" THEN "findByIdAndUpdate" ELSE "findByIdAndDelete",
                       reservation)
  /\ UNCHANGED <<pharmacies, medicines, reservations, pharmacySeq, medicineSeq, reservationSeq>>
  /\ UNCHANGED besidesInflight

\* await Reservation.findOne({ user, medicine, status: 'pending' }) in createReservation
awaitFindOne(p) ==
  LET r == inflight[p]
  IN
  /\ r.pc = "findOne"
  /\ IF existingReservation(r.user, r.id)
       THEN respond(p, Json(400, "You already have a pending reservation for this medicine", NULL))
       ELSE await(p, "create", r.found)
  /\ UNCHANGED <<pharmacies, medicines, reservations, pharmacySeq, medicineSeq, reservationSeq>>
  /\ UNCHANGED besidesInflight

\* await Pharmacy.findOne({ user: req.user._id }) in updateReservationStatus and
\* deleteReservation; the reservation is the one read at the await before.
awaitFindOnePharmacy(p) ==
  LET r == inflight[p]
      verb == IF r.route = "PUT /api/reservations/:id" THEN "update" ELSE "delete"
  IN
  /\ r.pc = "findOnePharmacy"
  /\ \E pharmacy \in findOnePharmacy(r.user) :
       IF notServicing(pharmacy, r.found)
         THEN respond(p, Json(403, "Not authorized to " \o verb \o " this reservation", NULL))
       ELSE IF verb = "update" /\ r.status \notin pharmacyStatuses
         THEN respond(p, Json(400, "Invalid status for pharmacy update", NULL))
       ELSE await(p, IF verb = "update" THEN "findByIdAndUpdate" ELSE "findByIdAndDelete",
                  r.found)
  /\ UNCHANGED <<pharmacies, medicines, reservations, pharmacySeq, medicineSeq, reservationSeq>>
  /\ UNCHANGED besidesInflight

\* await Reservation.create(...) in createReservation, and the response
awaitCreate(p) ==
  LET r == inflight[p]
      id == reservationSeq + 1
      reservation == newReservation(r.user, r.id, r.found)
  IN
  /\ r.pc = "create"
  /\ id \in ReservationIds
  /\ IF uniqueIndex(r.user, r.id)
       THEN /\ respond(p, Json(500, "Server error", NULL))
            /\ UNCHANGED <<reservations, reservationSeq>>
       ELSE /\ respond(p, Json(201, "", reservation))
            /\ reservations' = [reservations EXCEPT ![id] = reservation]
            /\ reservationSeq' = id
  /\ UNCHANGED <<pharmacies, medicines, pharmacySeq, medicineSeq>>
  /\ UNCHANGED besidesInflight

\* await Reservation.findByIdAndUpdate(req.params.id, { status }, { new: true })
\* in updateReservationStatus, and the response: the query answers null when
\* no document has the id.
awaitFindByIdAndUpdate(p) ==
  LET r == inflight[p]
      reservation == findById(reservations, r.id)
  IN
  /\ r.pc = "findByIdAndUpdate"
  /\ IF reservation = NULL
       THEN /\ respond(p, Json(200, "", NULL))
            /\ UNCHANGED reservations
       ELSE /\ respond(p, Json(200, "", setStatus(reservation, r.status)))
            /\ reservations' = [reservations EXCEPT ![r.id] = setStatus(reservation, r.status)]
  /\ UNCHANGED <<pharmacies, medicines, pharmacySeq, medicineSeq, reservationSeq>>
  /\ UNCHANGED besidesInflight

\* await Reservation.findByIdAndDelete(req.params.id) in deleteReservation, and the response
awaitFindByIdAndDelete(p) ==
  LET r == inflight[p]
  IN
  /\ r.pc = "findByIdAndDelete"
  /\ respond(p, Json(200, "Reservation deleted successfully", NULL))
  /\ reservations' = [reservations EXCEPT ![r.id] = NULL]
  /\ UNCHANGED <<pharmacies, medicines, pharmacySeq, medicineSeq, reservationSeq>>
  /\ UNCHANGED besidesInflight

\* The principals of the concurrent requests: the requester c1 reserves, the
\* owner of the pharmacy the medicine is stocked at and an admin set the
\* status, the requester and the owner delete.
Callers == {"p2", "ad"}

NextConcurrent ==
  \/ \E p \in Connections, m \in {1} :
       receive(p, "POST /api/reservations", "c1", m, "none")
  \/ \E p \in Connections, u \in Callers, id \in ReservationIds :
       receive(p, "PUT /api/reservations/:id", u, id, "confirmed")
  \/ \E p \in Connections, u \in {"c1", "p2"}, id \in ReservationIds :
       receive(p, "DELETE /api/reservations/:id", u, id, "none")
  \/ \E p \in Connections : awaitFindById(p)
  \/ \E p \in Connections : awaitFindOne(p)
  \/ \E p \in Connections : awaitFindOnePharmacy(p)
  \/ \E p \in Connections : awaitCreate(p)
  \/ \E p \in Connections : awaitFindByIdAndUpdate(p)
  \/ \E p \in Connections : awaitFindByIdAndDelete(p)

\* ------------------------------------------------------ client: withRetry
\* The largest maxRetries option a caller passes (the callers pass 2 or 3).
MaxRetries == 3

\* retryDelay = 1000
DefaultRetryDelay == 1000

\* The status of an error that has none.
NoStatus == 0

\* The errors fn may reject with: NetworkError's isNetworkError, isTimeout, status.
ErrorStatuses == {NoStatus, 404, 408, 429, 499, 500, 599, 600}

NetworkErrors ==
  [isNetworkError : BOOLEAN, isTimeout : BOOLEAN, status : ErrorStatuses]

isRetryableErrorAlways(error) == TRUE

isRetryableError(error) ==
  IF error.isNetworkError \/ error.isTimeout THEN TRUE
  ELSE IF error.status # NoStatus /\ error.status >= 500 /\ error.status < 600 THEN TRUE
  ELSE IF error.status = 429 \/ error.status = 408 THEN TRUE
  ELSE FALSE

\* The error thrown by invocation number `at` of fn.
Thrown(at, error) ==
  [at |-> at, isNetworkError |-> error.isNetworkError, isTimeout |-> error.isTimeout,
   status |-> error.status]

\* let lastError: not assigned yet
undefined == Thrown(0, [isNetworkError |-> FALSE, isTimeout |-> FALSE, status |-> NoStatus])

\* What withRetry does that its caller or fn can observe, in order.
Event(ev, n) == [ev |-> ev, n |-> n]

lastAttemptNever(attempt, maxRetries) == FALSE

\* attempt === maxRetries
lastAttempt(attempt, maxRetries) == attempt = maxRetries

\* backoff ? retryDelay * Math.pow(2, attempt) : retryDelay
delay(backoff, retryDelay, attempt) ==
  IF backoff THEN retryDelay * (2 ^ attempt) ELSE retryDelay

retryOnSuccess(ok, attempt, maxRetries, error) == "wait"

\* Where the loop body goes once fn has settled: return, throw (break), or retry.
settled(ok, attempt, maxRetries, error) ==
  IF ok THEN "returned"
  ELSE IF lastAttempt(attempt, maxRetries) THEN "thrown"
  ELSE IF ~isRetryableError(error) THEN "thrown"
  ELSE "wait"

\* No call of withRetry has been made.
idle ==
  [pc |-> "idle", maxRetries |-> 0, onRetry |-> FALSE, backoff |-> FALSE, attempt |-> 0,
   calls |-> 0, lastError |-> undefined, thrown |-> undefined, result |-> 0, log |-> <<>>]

\* withRetry(fn, { maxRetries, retryDelay, backoff, onRetry }) is called.
withRetry(maxRetries, backoff, onRetry) ==
  /\ retry.pc \in {"idle", "returned", "thrown"}
  /\ retry' = [idle EXCEPT !.pc = IF 0 <= maxRetries THEN "call" ELSE "thrown",
                           !.maxRetries = maxRetries, !.onRetry = onRetry, !.backoff = backoff]
  /\ UNCHANGED besidesRetry

\* return await fn(), and the catch block up to the await of the delay: fn settles,
\* with a value (ok) or with error.
fn(ok, error) ==
  /\ retry.pc = "call"
  /\ LET k == retry.calls + 1
         e == Thrown(k, error)
         to == settled(ok, retry.attempt, retry.maxRetries, error)
         called == Append(retry.log, Event(IF ok THEN "fn returns" ELSE "fn throws", k))
         told == IF retry.onRetry
                   THEN Append(called, Event("onRetry", retry.attempt + 1))
                   ELSE called
         waiting == Append(told, Event("delay",
                             delay(retry.backoff, DefaultRetryDelay, retry.attempt)))
     IN  retry' = [retry EXCEPT
                     !.pc = to,
                     !.calls = k,
                     !.lastError = IF ok THEN @ ELSE e,
                     !.thrown = IF to = "thrown" THEN e ELSE @,
                     !.result = IF to = "returned" THEN k ELSE @,
                     !.log = IF to = "wait" THEN waiting ELSE called]
  /\ UNCHANGED besidesRetry

\* The delay is over: attempt++, and the loop goes on while attempt <= maxRetries;
\* after the loop, throw lastError.
setTimeout ==
  /\ retry.pc = "wait"
  /\ LET attempt == retry.attempt + 1
     IN  retry' = IF attempt <= retry.maxRetries
                    THEN [retry EXCEPT !.pc = "call", !.attempt = attempt]
                    ELSE [retry EXCEPT !.pc = "thrown", !.attempt = attempt,
                                       !.thrown = retry.lastError]
  /\ UNCHANGED besidesRetry

NextRetry ==
  \/ \E maxRetries \in 0..MaxRetries, backoff \in BOOLEAN, onRetry \in BOOLEAN :
       withRetry(maxRetries, backoff, onRetry)
  \/ \E error \in NetworkErrors : fn(FALSE, error)
  \/ \E error \in {undefined} : fn(TRUE, error)
  \/ setTimeout

\* ------------------------------------------------------ client: Home page
\* The longest query typed into the search box.
MaxLen == 3

\* Characters of a query: white space, a letter, and two reserved characters.
Whitespace == {" ", "\t"}
Chars == Whitespace \cup {"a", "&", "%"}

Queries == UNION {[1..n -> Chars] : n \in 0..MaxLen}

\* The UTF-16 code unit of a character.
charCodeAt ==
  [c \in Chars |->
     CASE c = "\t" -> 9 [] c = " " -> 32 [] c = "%" -> 37 [] c = "&" -> 38 [] OTHER -> 97]

trimNothing(s) == s

\* String.prototype.trim(): white space is removed from both ends.
RECURSIVE trim(_)
trim(s) ==
  IF s = <<>> THEN s
  ELSE IF Head(s) \in Whitespace THEN trim(Tail(s))
  ELSE IF s[Len(s)] \in Whitespace THEN trim(SubSeq(s, 1, Len(s) - 1))
  ELSE s

HexDigits == <<"0", "1", "2", "3", "4", "5", "6", "7", "8", "9", "A", "B", "C", "D", "E", "F">>

\* %XX for one byte
percent(byte) == <<"%", HexDigits[(byte \div 16) + 1], HexDigits[(byte % 16) + 1]>>

\* Letters, digits and - _ . ! ~ * ' ( ) are left as they are by encodeURIComponent.
unreserved(c) ==
  charCodeAt[c] \in (65..90) \cup (97..122) \cup (48..57) \cup {45, 95, 46, 33, 126, 42, 39, 40, 41}

\* encodeURIComponent(s)
RECURSIVE encodeURIComponent(_)
encodeURIComponent(s) ==
  IF s = <<>> THEN <<>>
  ELSE (IF unreserved(Head(s)) THEN <<Head(s)>> ELSE percent(charCodeAt[Head(s)]))
         \o encodeURIComponent(Tail(s))

\* The page as it is rendered first: useState("").
rendered == [searchQuery |-> <<>>, submitted |-> FALSE, navigate |-> <<>>]

\* onChange of the search box: setSearchQuery(e.target.value)
setSearchQuery(value) ==
  /\ page' = [rendered EXCEPT !.searchQuery = value]
  /\ UNCHANGED besidesPage

\* onSubmit of the search form; navigate holds the calls of navigate it makes.
handleSearch ==
  /\ page' = [page EXCEPT
                !.submitted = TRUE,
                !.navigate = IF trim(page.searchQuery) # <<>>
                               THEN << <<"/search?q=">> \o encodeURIComponent(trim(page.searchQuery)) >>
                               ELSE <<>>]
  /\ UNCHANGED besidesPage

NextHome ==
  \/ \E value \in Queries : setSearchQuery(value)
  \/ handleSearch

\* --------------------------------------------------- client: AuthProvider
\* null, for a user and for a token
null == "null"

\* The token left in localStorage by an earlier session, and the tokens the
\* server issues on login and on register.
Tokens == {"t0", "t1", "t2"}

\* The user a token stands for.
userOf == [t \in Tokens |-> CASE t = "t0" -> "u0" [] t = "t1" -> "u1" [] OTHER -> "u2"]

\* Before the provider is rendered.
unmounted ==
  [mounted |-> FALSE, user |-> null, token |-> null, localStorage |-> null, loading |-> TRUE,
   pending |-> {}, storedToken |-> null, last |-> "none"]

\* AuthProvider is rendered with storedToken in localStorage: useState(...) and the
\* effect that calls initAuth, up to its await.
AuthProvider(storedToken) ==
  /\ ~auth.mounted
  /\ auth' = [unmounted EXCEPT
                !.mounted = TRUE,
                !.token = storedToken,
                !.localStorage = storedToken,
                !.storedToken = storedToken,
                !.loading = storedToken # null,
                !.pending = IF storedToken # null THEN {"initAuth"} ELSE {}]
  /\ UNCHANGED besidesAuth

\* initAuth after await apiClient.getCurrentUser(): it resolves or it throws.
initAuth(resolved) ==
  /\ "initAuth" \in auth.pending
  /\ auth' = IF resolved
               THEN [auth EXCEPT !.user = userOf[auth.storedToken],
                                 !.token = auth.storedToken,
                                 !.loading = FALSE,
                                 !.pending = @ \ {"initAuth"},
                                 !.last = "initAuth"]
               ELSE [auth EXCEPT !.localStorage = null,
                                 !.token = null,
                                 !.loading = FALSE,
                                 !.pending = @ \ {"initAuth"},
                                 !.last = "initAuth"]
  /\ UNCHANGED besidesAuth

\* login(...) and register(...) up to await apiClient.login / register
call(name) ==
  /\ auth.mounted
  /\ name \notin auth.pending
  /\ auth' = [auth EXCEPT !.pending = @ \cup {name}]
  /\ UNCHANGED besidesAuth

\* login / register after the await: the response carries user and token, or
\* the call throws and the state stays as it is.
settle(name, resolved, authToken) ==
  /\ name \in auth.pending
  /\ auth' = IF resolved
               THEN [auth EXCEPT !.user = userOf[authToken],
                                 !.token = authToken,
                                 !.localStorage = authToken,
                                 !.pending = @ \ {name},
                                 !.last = name]
               ELSE [auth EXCEPT !.pending = @ \ {name}, !.last = name]
  /\ UNCHANGED besidesAuth

\* logout()
logout ==
  /\ auth.mounted
  /\ auth' = [auth EXCEPT !.user = null, !.token = null, !.localStorage = null,
                          !.last = "logout"]
  /\ UNCHANGED besidesAuth

NextAuth ==
  \/ \E storedToken \in {null, "t0"} : AuthProvider(storedToken)
  \/ \E resolved \in BOOLEAN : initAuth(resolved)
  \/ call("login")
  \/ call("register")
  \/ \E resolved \in BOOLEAN : settle("login", resolved, "t1")
  \/ \E resolved \in BOOLEAN : settle("register", resolved, "t2")
  \/ logout

\* ---------------------------------------------------------- initial states
\* Nothing is going on in the client and no request is being handled.
Quiet ==
  /\ retry = idle
  /\ page = rendered
  /\ inflight = [p \in Connections |-> listening]
  /\ auth = unmounted

\* The empty database.
Init ==
  /\ pharmacies = [x \in PharmacyIds |-> NULL]
  /\ medicines = [m \in MedicineIds |-> NULL]
  /\ reservations = [r \in ReservationIds |-> NULL]
  /\ pharmacySeq = 0
  /\ medicineSeq = 0
  /\ reservationSeq = 0
  /\ req = Request("none", "ad", "none")
  /\ res = Json(0, "", NULL)
  /\ Quiet

\* The database after the seed script: every pharmacy user owns one pharmacy,
\* each pharmacy stocks one medicine (medicine 1 at pharmacy 2, medicine 2 at
\* pharmacy 1); the sample reservations are left out.
seedDatabase ==
  /\ pharmacies = [x \in PharmacyIds |->
                     [license |-> x, verified |-> TRUE, user |-> IF x = 1 THEN "p1" ELSE "p2"]]
  /\ medicines = [m \in MedicineIds |-> [pharmacy |-> 3 - m, availability |-> TRUE]]
  /\ reservations = [r \in ReservationIds |-> NULL]
  /\ pharmacySeq = 2
  /\ medicineSeq = 2
  /\ reservationSeq = 0
  /\ req = Request("none", "ad", "none")
  /\ res = Json(0, "", NULL)
  /\ Quiet

\* ------------------------------------------------- the reservation workflow
\* The medicine whose stock changes while reservations are made.
Stocked == {1}

\* Requests against the seeded database: the three reservation routes, and
\* a medicine going out of stock, coming back and being deleted.
Next ==
  \/ \E u \in Users, m \in Stocked \cup {BadId} : PostReservation(u, m)
  \/ \E u \in Users, id \in ReservationIds, s \in StatusInputs : PutReservation(u, id, s)
  \/ \E u \in Users, id \in ReservationIds : DeleteReservation(u, id)
  \/ \E u \in Users, id \in Stocked, a \in BOOLEAN : PutMedicine(u, id, [availability |-> a])
  \/ \E u \in Users, id \in Stocked : DeleteMedicine(u, id)

Spec == seedDatabase /\ [][Next]_vars

\* ------------------------------------------------------- the whole API
\* Every mutating route, from the empty database.  A pharmacy is created with the
\* license of its number, handed over to p1 or deleted; a medicine is created in
\* stock, taken out of stock or deleted; one medicine and one reservation are made.
NextStore ==
  \/ \E u \in Users, id \in MedicineIds : PutMedicine(u, id, [availability |-> FALSE])
  \/ \E u \in Users, id \in MedicineIds : DeleteMedicine(u, id)
  \/ \E u \in Users, x \in PharmacyIds : medicineSeq = 0 /\ PostMedicine(u, [pharmacy |-> x])
  \/ \E u \in Users : PostPharmacy(u, [license |-> pharmacySeq + 1])
  \/ \E u \in Users, id \in PharmacyIds : PutPharmacy(u, id, [user |-> "p1"])
  \/ \E u \in Users, id \in PharmacyIds : DeletePharmacy(u, id)
  \/ \E u \in Users, m \in MedicineIds : reservationSeq = 0 /\ PostReservation(u, m)
  \/ \E u \in Users, id \in ReservationIds, s \in StatusEnum : PutReservation(u, id, s)
  \/ \E u \in Users, id \in ReservationIds : DeleteReservation(u, id)

SpecStore == Init /\ [][NextStore]_vars

\* ------------------------------------------------------ the pharmacy registry
\* License numbers a request may carry.
Licenses == {1, 2}

\* Users a request body may name as the pharmacy's user.
Heirs == {"p1", "c1"}

\* Bodies of PUT /api/pharmacies/:id: a license, the verified flag, or the user field.
PharmacyUpdates ==
  {[license |-> l] : l \in Licenses} \cup {[verified |-> b] : b \in BOOLEAN}
    \cup {[user |-> v] : v \in Heirs}

\* The pharmacy routes alone, from the empty database.
NextPharmacy ==
  \/ \E u \in Users, l \in Licenses : PostPharmacy(u, [license |-> l])
  \/ \E u \in Users, id \in PharmacyIds, body \in PharmacyUpdates : PutPharmacy(u, id, body)
  \/ \E u \in Users, id \in PharmacyIds : DeletePharmacy(u, id)

SpecPharmacy == Init /\ [][NextPharmacy]_vars

\* The pharmacy routes with the lookups of one pharmacy.
NextLookup ==
  \/ \E u \in Users, l \in Licenses : PostPharmacy(u, [license |-> l])
  \/ \E u \in Users, id \in PharmacyIds, v \in Heirs : PutPharmacy(u, id, [user |-> v])
  \/ \E u \in Users, id \in PharmacyIds : DeletePharmacy(u, id)
  \/ \E u \in Users, segment \in {"1", "2", "mypharmacy"} : GetPharmacy(u, segment)

SpecLookup == Init /\ [][NextLookup]_vars

\* ------------------------------------------------------------- ownership
\* Bodies of PUT /api/medicines/:id: out of stock, or moved to a pharmacy.
MedicineUpdates == {[availability |-> FALSE]} \cup {[pharmacy |-> x] : x \in PharmacyIds}

\* Requests against the seeded database while ownership changes: a pharmacy is handed
\* over or deleted, the stocked medicine is updated, moved or deleted, one reservation
\* is made for it and then confirmed, cancelled or deleted.
NextOwnership ==
  \/ \E u \in Users, id \in PharmacyIds, v \in Heirs : PutPharmacy(u, id, [user |-> v])
  \/ \E u \in Users, id \in PharmacyIds : DeletePharmacy(u, id)
  \/ \E u \in Users, id \in Stocked, body \in MedicineUpdates : PutMedicine(u, id, body)
  \/ \E u \in Users, id \in Stocked : DeleteMedicine(u, id)
  \/ \E u \in Users, m \in Stocked : reservationSeq = 0 /\ PostReservation(u, m)
  \/ \E u \in Users, id \in ReservationIds, s \in pharmacyStatuses : PutReservation(u, id, s)
  \/ \E u \in Users, id \in ReservationIds : DeleteReservation(u, id)

SpecOwnership == seedDatabase /\ [][NextOwnership]_vars

\* withRetry calls, one after the other; fn settles and the timers fire.
SpecRetry == Init /\ [][NextRetry]_vars

\* fn settles and the timers fire: a pending step of withRetry is taken eventually.
SpecRetryFair == SpecRetry /\ WF_vars(NextRetry)

\* Reservation requests on the seeded database, handled concurrently.
SpecConcurrent == seedDatabase /\ [][NextConcurrent]_vars

\* req.query of GET /api/reservations: with and without a status, the first
\* and the second page, pages of one reservation and of the default size.
ListQueries == [status : {NoFilter, "pending"}, page : {DefaultPage, 2}, limit : {1, DefaultLimit}]

\* Reservations are made at both seeded pharmacies and confirmed, a pharmacy is
\* handed over, and principals of every role read reservations.
NextReads ==
  \/ \E u \in {"c1", "c2"}, m \in MedicineIds : PostReservation(u, m)
  \/ \E id \in ReservationIds : PutReservation("ad", id, "confirmed")
  \/ \E id \in PharmacyIds, v \in Heirs : PutPharmacy("ad", id, [user |-> v])
  \/ \E u \in Users, query \in ListQueries : GetReservations(u, query)
  \/ \E u \in Users, id \in ReservationIds : GetReservation(u, id)

SpecReads == seedDatabase /\ [][NextReads]_vars

\* The AuthProvider: the session check, logins, registrations and logouts.
SpecAuth == Init /\ [][NextAuth]_vars

\* The Home page: the user types and submits.
SpecHome == Init /\ [][NextHome]_vars

\* ------------------------------------------------------------ vocabulary
\* Outcome kinds of a response.
Forbidden(r) == r.status = 403
NotFound(r) == r.status = 404
Rejected(r) == r.status >= 400

\* A state-dependent precondition failed.
Conflict(r) ==
  /\ r.status = 400
  /\ r.message \in {"Medicine is not available",
                   "You already have a pending reservation for this medicine",
                   "User already has a pharmacy",
                   "License number already exists"}

Live(id) == reservations[id] # NULL

\* u is the stored owner of pharmacy x.
owns(u, x) == x \in PharmacyIds /\ pharmacies[x] # NULL /\ pharmacies[x].user = u

\* u holds a pending reservation for medicine m.
hasPending(u, m) ==
  \E r \in ReservationIds :
     Live(r) /\ reservations[r].user = u /\ reservations[r].medicine = m
             /\ reservations[r].status = "pending"

\* Pharmacy x is in the store.
Registered(x) == pharmacies[x] # NULL

\* u owns no pharmacy.
ownsNone(u) == \A x \in PharmacyIds : ~owns(u, x)

\* A pharmacy other than id holds license l.
heldByOther(id, l) ==
  \E x \in PharmacyIds \ {id} : Registered(x) /\ pharmacies[x].license = l

\* Medicine m is in the store, and so is the pharmacy it references.
Housed(m) == medicines[m] # NULL /\ Registered(medicines[m].pharmacy)

\* The authorization table's rows for updating or deleting pharmacy x.
MayManagePharmacy(u, x) == role[u] = "admin" \/ (role[u] = "pharmacy" /\ owns(u, x))

ReservationRoutes ==
  {"POST /api/reservations", "PUT /api/reservations/:id", "DELETE /api/reservations/:id"}

PutRoute == "PUT /api/reservations/:id"
PostRoute == "POST /api/reservations"

\* ------------------------------------------------------------------ claims
\* C1: for every consumer, requester or not, updateReservationStatus with new
\* status 'confirmed' fails with Forbidden and leaves the stored status unchanged.
C1_ConsumerConfirmForbidden ==
  \A u \in Users, id \in ReservationIds :
    (role[u] = "consumer" /\ Live(id)) =>
      \A pharmacy \in findOnePharmacy(u) :
        LET out == updateReservationStatus(u, id, "confirmed", pharmacy)
        IN  Forbidden(out.res) /\ out.coll = reservations

\* C2: a pharmacy-role principal's updateReservationStatus succeeds and stores the
\* requested status exactly when the principal owns the reservation's pharmacy and
\* the status is confirmed or cancelled; otherwise it is rejected and nothing changes.
C2_PharmacyUpdateExactlyWhenOwner ==
  \A u \in Users, id \in ReservationIds, s \in StatusInputs :
    (role[u] = "pharmacy" /\ Live(id)) =>
      \A pharmacy \in findOnePharmacy(u) :
        LET out == updateReservationStatus(u, id, s, pharmacy)
        IN  IF owns(u, reservations[id].pharmacy) /\ s \in {"confirmed", "cancelled"}
              THEN out.res.status = 200 /\ out.coll[id].status = s
              ELSE Rejected(out.res) /\ out.coll = reservations

\* C3: a consumer who is not the requester of a reservation gets Forbidden from
\* updateReservationStatus for every status, cancelled included, and the
\* reservation is left unchanged.
C3_NonRequesterConsumerDenied ==
  \A u \in Users, id \in ReservationIds, s \in StatusEnum :
    (role[u] = "consumer" /\ Live(id) /\ reservations[id].user # u) =>
      \A pharmacy \in findOnePharmacy(u) :
        LET out == updateReservationStatus(u, id, s, pharmacy)
        IN  Forbidden(out.res) /\ out.coll = reservations

\* A consumer has just been refused on somebody else's reservation, which is still there.
C3_Witness ==
  /\ req.route = PutRoute
  /\ req.user = "c2"
  /\ res = Json(403, "Not authorized to update this reservation", NULL)
  /\ \E id \in ReservationIds : Live(id) /\ reservations[id].user = "c1"
  /\ \A id \in ReservationIds : Live(id) => reservations[id].user # "c2"

\* C4: a successful createReservation by U for M adds exactly one reservation: pending,
\* of user U, for medicine M, at the pharmacy M references when the request reads it.
C4_CreateAddsOnePending ==
  \A u \in Users, m \in MedicineIds :
    LET out == createReservation(u, m)
        reservation == [user |-> u, medicine |-> m,
                        pharmacy |-> medicines[m].pharmacy, status |-> "pending"]
    IN  (out.res.status = 201 /\ out.seq \in ReservationIds) =>
          /\ ~Live(out.seq)
          /\ out.coll = [reservations EXCEPT ![out.seq] = reservation]
          /\ out.res.data = reservation

\* A reservation has just been created for medicine 1, which pharmacy 2 stocks.
C4_Witness ==
  /\ req.route = PostRoute
  /\ res.status = 201
  /\ res.data.medicine = 1
  /\ res.data.pharmacy = 2
  /\ reservations[reservationSeq] = res.data

\* C5: createReservation against a medicine whose availability is false fails with
\* Conflict and adds no reservation, whatever else the store holds.
C5_UnavailableIsConflict ==
  \A u \in Users, m \in MedicineIds :
    (medicines[m] # NULL /\ ~medicines[m].availability) =>
      LET out == createReservation(u, m)
      IN  /\ Conflict(out.res)
          /\ out.res.message = "Medicine is not available"
          /\ out.coll = reservations
          /\ out.seq = reservationSeq

\* A consumer has just been told that a medicine, out of stock, is not available.
C5_Witness ==
  /\ req.route = PostRoute
  /\ res = Json(400, "Medicine is not available", NULL)
  /\ \E m \in MedicineIds : medicines[m] # NULL /\ ~medicines[m].availability

\* C6 as stated: whenever U holds a pending reservation for M, createReservation by
\* U for M fails with Conflict and adds no record.
C6_DuplicateIsConflict ==
  \A u \in Users, m \in MedicineIds :
    hasPending(u, m) =>
      LET out == createReservation(u, m)
      IN  Conflict(out.res) /\ out.coll = reservations /\ out.seq = reservationSeq

\* C6 as amended: whenever U holds a pending reservation for M, createReservation by U
\* for M fails and adds no record: with Conflict while M exists (the duplicate-pending
\* one when M is available), with NotFound once M has been deleted.
C6_DuplicateIsRejected ==
  \A u \in Users, m \in MedicineIds :
    hasPending(u, m) =>
      LET out == createReservation(u, m)
      IN  /\ out.coll = reservations
          /\ out.seq = reservationSeq
          /\ IF medicines[m] = NULL THEN NotFound(out.res) ELSE Conflict(out.res)
          /\ (medicines[m] # NULL /\ medicines[m].availability) =>
               out.res.message = "You already have a pending reservation for this medicine"

\* A consumer holding a pending reservation has just been refused a second one.
C6_Witness ==
  /\ req.route = PostRoute
  /\ res = Json(400, "You already have a pending reservation for this medicine", NULL)
  /\ \E u \in Users, m \in MedicineIds : hasPending(u, m) /\ medicines[m] # NULL
  /\ reservationSeq < MaxReservations

\* C7: with requests running one at a time, at most one pending reservation exists
\* for each (user, medicine) pair, whatever the roles of the principals.
C7_OnePendingPerPair ==
  \A r1, r2 \in ReservationIds :
    (/\ Live(r1) /\ Live(r2)
     /\ reservations[r1].status = "pending" /\ reservations[r2].status = "pending"
     /\ reservations[r1].user = reservations[r2].user
     /\ reservations[r1].medicine = reservations[r2].medicine) => r1 = r2

\* What the role rules permit, the current status playing no part.
Permitted(u, id, s) ==
  CASE role[u] = "consumer" -> reservations[id].user = u /\ s = "cancelled"
    [] role[u] = "pharmacy" -> owns(u, reservations[id].pharmacy) /\ s \in {"confirmed", "cancelled"}
    [] OTHER -> TRUE

\* C8: updateReservationStatus has no guard on the current status: every request the
\* role rules permit succeeds and stores the requested status, also on a reservation
\* that is confirmed or cancelled (a pharmacy owner confirming a cancelled one).
C8_NoGuardOnCurrentStatus ==
  \A u \in Users, id \in ReservationIds, s \in StatusEnum :
    Live(id) =>
      \A pharmacy \in findOnePharmacy(u) :
        Permitted(u, id, s) =>
          LET out == updateReservationStatus(u, id, s, pharmacy)
          IN  /\ out.res.status = 200
              /\ out.coll = [reservations EXCEPT ![id].status = s]
              /\ out.res.data = out.coll[id]

\* The owner of a pharmacy has just confirmed a reservation of that pharmacy which
\* the request found cancelled.
C8_Witness ==
  /\ req.route = PutRoute
  /\ role[req.user] = "pharmacy"
  /\ req.was = "cancelled"
  /\ res.status = 200
  /\ res.data.status = "confirmed"
  /\ owns(req.user, res.data.pharmacy)

\* C9: deleteReservation removes an existing reservation exactly when the principal is
\* its consumer requester, a pharmacy-role owner of its pharmacy, or an admin, whatever
\* its status; a rejected delete leaves it in the store.
C9_DeleteExactlyWhenEntitled ==
  \A u \in Users, id \in ReservationIds :
    Live(id) =>
      \A pharmacy \in findOnePharmacy(u) :
        LET out == deleteReservation(u, id, pharmacy)
            entitled == \/ role[u] = "consumer" /\ reservations[id].user = u
                        \/ role[u] = "pharmacy" /\ owns(u, reservations[id].pharmacy)
                        \/ role[u] = "admin"
        IN  IF entitled
              THEN out.res.status = 200 /\ out.coll = [reservations EXCEPT ![id] = NULL]
              ELSE Rejected(out.res) /\ out.coll = reservations

\* C10: an admin is permitted every action on every target and never receives
\* Forbidden: setting any reservation status, deleting any reservation, updating or
\* deleting any pharmacy, and creating, updating or deleting any medicine.
C10_AdminNeverForbidden ==
  \A u \in Users :
    role[u] = "admin" =>
      /\ \A id \in ReservationIds, s \in StatusEnum, pharmacy \in findOnePharmacy(u) :
           ~Forbidden(updateReservationStatus(u, id, s, pharmacy).res)
      /\ \A id \in ReservationIds, pharmacy \in findOnePharmacy(u) :
           ~Forbidden(deleteReservation(u, id, pharmacy).res)
      /\ \A id \in PharmacyIds :
           /\ ~Forbidden(updatePharmacy(u, id, [verified |-> TRUE]).res)
           /\ ~Forbidden(deletePharmacy(u, id).res)
      /\ \A id \in MedicineIds :
           /\ ~Forbidden(updateMedicine(u, id, [availability |-> FALSE]).res)
           /\ ~Forbidden(deleteMedicine(u, id).res)
      /\ \A x \in PharmacyIds :
           ~Forbidden(createMedicine(u, [pharmacy |-> x]).res)

\* C13: createPharmacy by a user who already owns a pharmacy fails with the Conflict
\* 'User already has a pharmacy' and leaves the pharmacy store unchanged.
C13_SecondPharmacyIsConflict ==
  \A u \in Users, l \in Licenses :
    ~ownsNone(u) =>
      LET out == createPharmacy(u, [license |-> l])
      IN  /\ Conflict(out.res)
          /\ out.res.message = "User already has a pharmacy"
          /\ out.coll = pharmacies
          /\ out.seq = pharmacySeq

\* The owner of a pharmacy has just been refused a second one.
C13_Witness ==
  /\ req.route = "POST /api/pharmacies"
  /\ res = Json(400, "User already has a pharmacy", NULL)
  /\ ~ownsNone(req.user)

\* C14: in every reachable state, whatever createPharmacy, updatePharmacy (with any
\* body) and deletePharmacy requests were served, no user is the stored owner of
\* more than one pharmacy.
C14_OnePharmacyPerUser ==
  \A x, y \in PharmacyIds :
    (Registered(x) /\ Registered(y) /\ pharmacies[x].user = pharmacies[y].user) => x = y

\* C15: no two pharmacies in the store have the same license, and a createPharmacy or
\* updatePharmacy that would give a pharmacy a license another pharmacy holds fails
\* with the Conflict 'License number already exists' and leaves the store unchanged.
C15_LicenseUnique ==
  /\ \A x, y \in PharmacyIds :
       (Registered(x) /\ Registered(y) /\ pharmacies[x].license = pharmacies[y].license) => x = y
  /\ \A u \in Users, l \in Licenses :
       (ownsNone(u) /\ heldByOther(BadId, l)) =>
         LET out == createPharmacy(u, [license |-> l])
         IN  /\ Conflict(out.res)
             /\ out.res.message = "License number already exists"
             /\ out.coll = pharmacies
             /\ out.seq = pharmacySeq
  /\ \A u \in Users, id \in PharmacyIds, l \in Licenses :
       (Registered(id) /\ (owns(u, id) \/ role[u] = "admin") /\ heldByOther(id, l)) =>
         LET out == updatePharmacy(u, id, [license |-> l])
         IN  /\ Conflict(out.res)
             /\ out.res.message = "License number already exists"
             /\ out.coll = pharmacies

\* Two pharmacies are registered and a request has just been refused the license of
\* the other one.
C15_Witness ==
  /\ req.route \in {"POST /api/pharmacies", "PUT /api/pharmacies/:id"}
  /\ res = Json(400, "License number already exists", NULL)
  /\ \A x \in PharmacyIds : Registered(x)

\* C16: the verified flag of an existing pharmacy changes value only in an
\* updatePharmacy step of that pharmacy's current owner or of an admin.
C16_VerifiedOnlyByOwnerOrAdmin ==
  [][\A x \in PharmacyIds :
       (Registered(x) /\ pharmacies'[x] # NULL
          /\ pharmacies'[x].verified # pharmacies[x].verified) =>
         /\ req'.route = "PUT /api/pharmacies/:id"
         /\ (req'.user = pharmacies[x].user \/ role[req'.user] = "admin")]_vars

\* An update has just left a pharmacy verified (a pharmacy is created unverified).
C16_Witness ==
  /\ req.route = "PUT /api/pharmacies/:id"
  /\ res.status = 200
  /\ res.data.verified

\* C18: createReservation reports the first precondition that fails, in the order
\* medicine missing (NotFound), medicine unavailable (Conflict), duplicate pending
\* reservation (Conflict): for an unavailable medicine the user already holds a
\* pending reservation for, it reports 'Medicine is not available'.
C18_FirstFailureWins ==
  \A u \in Users, m \in MedicineIds :
    LET out == createReservation(u, m)
    IN  /\ medicines[m] = NULL =>
             NotFound(out.res) /\ out.res.message = "Medicine not found"
        /\ (medicines[m] # NULL /\ ~medicines[m].availability) =>
             Conflict(out.res) /\ out.res.message = "Medicine is not available"
        /\ (medicines[m] # NULL /\ medicines[m].availability /\ hasPending(u, m)) =>
             /\ Conflict(out.res)
             /\ out.res.message = "You already have a pending reservation for this medicine"
        /\ Rejected(out.res) => out.coll = reservations /\ out.seq = reservationSeq

\* A consumer holding a pending reservation for the medicine, now out of stock, has
\* just been told that the medicine is not available.
C18_Witness ==
  /\ req.route = PostRoute
  /\ res = Json(400, "Medicine is not available", NULL)
  /\ \A m \in Stocked : medicines[m] # NULL /\ ~medicines[m].availability
                         /\ hasPending(req.user, m)

\* C11, for Pharmacy and Medicine targets: an update or delete that no row of the
\* authorization table matches is rejected with Forbidden and changes nothing; a
\* consumer never updates or deletes a pharmacy or a medicine.
C11_DenyByDefault ==
  /\ \A u \in Users, x \in PharmacyIds, body \in PharmacyUpdates :
       (Registered(x) /\ ~MayManagePharmacy(u, x)) =>
         LET upd == updatePharmacy(u, x, body)
             del == deletePharmacy(u, x)
         IN  /\ Forbidden(upd.res) /\ upd.coll = pharmacies
             /\ Forbidden(del.res) /\ del.coll = pharmacies
  /\ \A u \in Users, m \in MedicineIds, body \in MedicineUpdates :
       (Housed(m) /\ ~MayManagePharmacy(u, medicines[m].pharmacy)) =>
         LET upd == updateMedicine(u, m, body)
             del == deleteMedicine(u, m)
         IN  /\ Forbidden(upd.res) /\ upd.coll = medicines
             /\ Forbidden(del.res) /\ del.coll = medicines

\* C12: for a medicine M of pharmacy X whose stored owner is U when the request is
\* served, updateMedicine and deleteMedicine by U succeed, and by any other principal
\* who is not an admin they are Forbidden and leave M unchanged; so a previous owner
\* of X is denied.
C12_OwnershipTransitive ==
  \A u \in Users, m \in MedicineIds, body \in MedicineUpdates :
    Housed(m) =>
      LET upd == updateMedicine(u, m, body)
          del == deleteMedicine(u, m)
      IN  IF pharmacies[medicines[m].pharmacy].user = u
            THEN /\ upd.res.status = 200
                 /\ upd.coll[m] # NULL
                 /\ \A f \in DOMAIN body : upd.coll[m][f] = body[f]
                 /\ del.res.status = 200
                 /\ del.coll[m] = NULL
            ELSE role[u] # "admin" =>
                   /\ Forbidden(upd.res) /\ upd.coll = medicines
                   /\ Forbidden(del.res) /\ del.coll = medicines

\* Pharmacy 2, seeded as p2's, has another owner, and p2 has just been refused an
\* update of the medicine it stocks.
C12_Witness ==
  /\ req.route = "PUT /api/medicines/:id"
  /\ req.user = "p2"
  /\ res = Json(403, "Not authorized to update this medicine", NULL)
  /\ Registered(2)
  /\ pharmacies[2].user # "p2"
  /\ \A m \in Stocked : medicines[m] # NULL /\ medicines[m].pharmacy = 2

\* C17: an operation that resolves ownership through an entity that does not exist
\* reports NotFound: updateMedicine and deleteMedicine on a medicine whose pharmacy
\* has been deleted, and a pharmacy-role principal owning no pharmacy who updates or
\* deletes a reservation.
C17_MissingOwnerIsNotFound ==
  /\ \A u \in Users, m \in MedicineIds, body \in MedicineUpdates :
       (medicines[m] # NULL /\ ~Registered(medicines[m].pharmacy)) =>
         /\ NotFound(updateMedicine(u, m, body).res)
         /\ NotFound(deleteMedicine(u, m).res)
  /\ \A u \in Users, id \in ReservationIds, s \in StatusEnum :
       (role[u] = "pharmacy" /\ ownsNone(u) /\ Live(id)) =>
         /\ NotFound(updateReservationStatus(u, id, s, BadId).res)
         /\ NotFound(deleteReservation(u, id, BadId).res)

\* C19: the user, medicine and pharmacy references of a stored reservation never
\* change, whatever request is served: a status update, the medicine moved, updated
\* or deleted, the pharmacy handed over.
C19_ReferencesFixed ==
  [][\A id \in ReservationIds :
       (Live(id) /\ reservations'[id] # NULL) =>
         /\ reservations'[id].user = reservations[id].user
         /\ reservations'[id].medicine = reservations[id].medicine
         /\ reservations'[id].pharmacy = reservations[id].pharmacy]_vars

\* A reservation, confirmed since, still names the pharmacy its medicine was at
\* when it was made; the medicine has been moved to another pharmacy.
C19_Witness ==
  \E id \in ReservationIds :
    /\ Live(id)
    /\ reservations[id].status = "confirmed"
    /\ medicines[reservations[id].medicine] # NULL
    /\ medicines[reservations[id].medicine].pharmacy # reservations[id].pharmacy
    /\ reservations[id].pharmacy = 2

\* C20: createReservation, updateReservationStatus and deleteReservation leave every
\* medicine and pharmacy record as it is; no status change or deletion takes a
\* medicine out of stock.
C20_ReservationsLeaveStockAlone ==
  [][req'.route \in ReservationRoutes =>
       medicines' = medicines /\ pharmacies' = pharmacies]_vars

\* A reservation has just been confirmed and its medicine is still available.
C20_Witness ==
  /\ req.route = PutRoute
  /\ res.status = 200
  /\ res.data.status = "confirmed"
  /\ medicines[res.data.medicine] # NULL
  /\ medicines[res.data.medicine].availability

\* ---------------------------------------------------------- claims: withRetry
\* The call of withRetry is over.
Ended == retry.pc \in {"returned", "thrown"}

\* The positions in the log of the events named ev.
At(ev) == {i \in 1..Len(retry.log) : retry.log[i].ev = ev}

\* The positions of the invocations of fn.
Invocations == At("fn returns") \cup At("fn throws")

\* The position of invocation number k of fn.
Invocation(k) == CHOOSE i \in Invocations : retry.log[i].n = k

\* C28: withRetry terminates when fn does; it invokes fn at most maxRetries + 1 times,
\* never again after an invocation succeeded, and ends by returning the result of the
\* first successful invocation or by throwing the error of the last invocation made.
C28_Terminates ==
  /\ [](/\ retry.calls <= retry.maxRetries + 1
        /\ Cardinality(Invocations) = retry.calls
        /\ \A i \in At("fn returns") : i = Len(retry.log)
        /\ retry.pc = "returned" =>
             /\ At("fn returns") # {}
             /\ retry.result = retry.log[Len(retry.log)].n
        /\ retry.pc = "thrown" =>
             /\ retry.calls >= 1
             /\ retry.log[Len(retry.log)] = Event("fn throws", retry.calls)
             /\ retry.thrown.at = retry.calls
             /\ retry.thrown = retry.lastError)
  /\ (retry.pc \in {"call", "wait"} ~> Ended)

\* fn has failed maxRetries + 1 times, more than once, and withRetry has thrown.
C28_Witness ==
  /\ retry.pc = "thrown"
  /\ retry.maxRetries >= 2
  /\ retry.calls = retry.maxRetries + 1

\* Not a network error, not a timeout, status not 5xx, 429 or 408.
NotRetryable(error) ==
  /\ ~error.isNetworkError
  /\ ~error.isTimeout
  /\ error.status \notin 500..599
  /\ error.status \notin {429, 408}

\* C29: when an invocation of fn fails with an error that is not retryable, withRetry
\* throws that error at once: no further invocation, no onRetry, no delay.
C29_NotRetryableThrownAtOnce ==
  (/\ retry.calls >= 1
   /\ retry.lastError.at = retry.calls
   /\ NotRetryable(retry.lastError)) =>
     /\ retry.pc = "thrown"
     /\ retry.thrown = retry.lastError
     /\ retry.log[Len(retry.log)] = Event("fn throws", retry.calls)

\* With attempts left and an onRetry callback, fn has failed a second time, with an
\* error that is not retryable, and withRetry has thrown.
C29_Witness ==
  /\ retry.pc = "thrown"
  /\ retry.onRetry
  /\ retry.calls = 2
  /\ retry.attempt < retry.maxRetries
  /\ NotRetryable(retry.thrown)

\* C30: onRetry is called exactly once between two consecutive invocations of fn,
\* after the failed one and before the next, with the attempt numbers 1, 2, ...; when
\* withRetry is over the onRetry calls number the invocations minus one, and none
\* follows the last invocation.
C30_OnRetryBetweenInvocations ==
  retry.onRetry =>
    /\ \A k \in 1..(retry.calls - 1) :
         LET between == {i \in At("onRetry") : Invocation(k) < i /\ i < Invocation(k + 1)}
         IN  /\ Cardinality(between) = 1
             /\ \A i \in between : retry.log[i].n = k /\ retry.log[i - 1] = Event("fn throws", k)
    /\ Ended =>
         /\ Cardinality(At("onRetry")) = Cardinality(Invocations) - 1
         /\ \A i \in At("onRetry") : i < Invocation(retry.calls)

\* With an onRetry callback, fn has failed three times and withRetry has thrown
\* after the last attempt; onRetry was called twice.
C30_Witness ==
  /\ retry.pc = "thrown"
  /\ retry.onRetry
  /\ retry.calls = 3
  /\ retry.attempt = retry.maxRetries
  /\ Cardinality(At("onRetry")) = 2

\* ---------------------------------------------------------- claims: Home page
\* The positions of the query that hold no white space.
Inked(q) == {i \in 1..Len(q) : q[i] \notin Whitespace}

\* The query between its first and its last character that is no white space.
Core(q) ==
  SubSeq(q, CHOOSE i \in Inked(q) : \A j \in Inked(q) : i <= j,
            CHOOSE i \in Inked(q) : \A j \in Inked(q) : j <= i)

\* The URI encoding of each character.
Escaped ==
  [c \in Chars |->
     CASE c = " " -> <<"%", "2", "0">>
       [] c = "\t" -> <<"%", "0", "9">>
       [] c = "&" -> <<"%", "2", "6">>
       [] c = "%" -> <<"%", "2", "5">>
       [] OTHER -> <<c>>]

RECURSIVE Encoding(_)
Encoding(s) == IF s = <<>> THEN <<>> ELSE Escaped[Head(s)] \o Encoding(Tail(s))

\* C21: submitting the Home search form navigates exactly when the query is not
\* empty after trimming, and then once, to /search?q=<the trimmed query, URI-encoded>.
C21_SearchNavigates ==
  page.submitted =>
    IF Inked(page.searchQuery) = {}
      THEN page.navigate = <<>>
      ELSE page.navigate = << <<"/search?q=">> \o Encoding(Core(page.searchQuery)) >>

\* A query with white space around a reserved character has been submitted and the
\* page has navigated.
C21_Witness ==
  /\ page.submitted
  /\ page.searchQuery = <<" ", "&", "\t">>
  /\ Len(page.navigate) = 1

\* --------------------------------------------- claims: concurrent requests
\* Connection p holds a request of route that was answered with status.
Answered(p, route, status) ==
  /\ inflight[p].pc = "responded"
  /\ inflight[p].route = route
  /\ inflight[p].res.status = status

\* C22: the duplicate check of createReservation is a read that nothing ties to
\* the insert: a request that has passed it inserts its pending reservation
\* whatever has been stored since, so two concurrent requests of one user for
\* one available medicine both succeed and leave two pending reservations.
C22_InsertAfterCheckCommits ==
  [][\A p \in Connections :
       (inflight[p].pc = "create" /\ inflight'[p].pc = "responded") =>
          /\ inflight'[p].res.status = 201
          /\ reservationSeq' = reservationSeq + 1
          /\ reservations'[reservationSeq'] =
               [user |-> inflight[p].user, medicine |-> inflight[p].id,
                pharmacy |-> inflight[p].found.pharmacy, status |-> "pending"]]_vars

\* Both connections hold a createReservation of c1 for medicine 1 answered 201,
\* and two pending reservations of c1 for medicine 1 are stored.
C22_Witness ==
  /\ \A p \in Connections :
       Answered(p, PostRoute, 201) /\ inflight[p].user = "c1" /\ inflight[p].id = 1
  /\ \A r \in {1, 2} :
       /\ Live(r)
       /\ reservations[r].user = "c1"
       /\ reservations[r].medicine = 1
       /\ reservations[r].status = "pending"
  /\ medicines[1] # NULL /\ medicines[1].availability

\* C23: every success response of updateReservationStatus carries a reservation
\* whose status is the requested one, also when deleteReservation runs between
\* its awaits (a reservation gone by the time of the write is reported NotFound).
C23_SuccessCarriesReservation ==
  \A p \in Connections :
    Answered(p, PutRoute, 200) =>
      /\ inflight[p].res.data # NULL
      /\ inflight[p].res.data.status = inflight[p].status

\* ------------------------------------------------------- claims: reads
\* What the role of u lets u read.
MaySee(u, reservation) ==
  CASE role[u] = "consumer" -> reservation.user = u
    [] role[u] = "pharmacy" -> owns(u, reservation.pharmacy)
    [] OTHER -> TRUE

\* The reservations the response r to a request of route carries.
Carried(route, r) ==
  IF r.status # 200 THEN {}
  ELSE IF route = "GET /api/reservations" THEN {r.data[i] : i \in 1..Len(r.data)}
  ELSE {r.data}

\* C25: getReservations and getReservation answer a consumer only with that
\* consumer's reservations and a pharmacy user only with reservations of a
\* pharmacy that user owns; an admin is answered with every reservation.
C25_ReadsConfinedByRole ==
  /\ (req.route \in {"GET /api/reservations", "GET /api/reservations/:id"} /\ res.status = 200) =>
       \A reservation \in Carried(req.route, res) : MaySee(req.user, reservation)
  /\ \A u \in Users :
       role[u] = "admin" =>
         /\ Carried("GET /api/reservations",
                    getReservations(u, [status |-> NoFilter, page |-> DefaultPage,
                                        limit |-> DefaultLimit], BadId).res)
              = {reservations[r] : r \in {x \in ReservationIds : Live(x)}}
         /\ \A id \in ReservationIds :
              Live(id) => getReservation(u, id, BadId).res = Json(200, "", reservations[id])

\* A pharmacy user has listed reservations and got some, while a reservation of a
\* pharmacy that user does not own is stored.
C25_Witness ==
  /\ req.route = "GET /api/reservations"
  /\ role[req.user] = "pharmacy"
  /\ res.status = 200
  /\ Carried(req.route, res) # {}
  /\ \E r \in ReservationIds : Live(r) /\ ~owns(req.user, reservations[r].pharmacy)

\* --------------------------------------------------- claims: inventories
\* The medicines that reference pharmacy x.
inventory(x) == {m \in MedicineIds : medicines[m] # NULL /\ medicines[m].pharmacy = x}

\* C24: a medicine request of a principal who does not own pharmacy x leaves the
\* medicines that reference x as they are: none is added, removed or altered.
C24_InventoryChangedOnlyByOwner ==
  [][\A x \in PharmacyIds :
       (medicines' # medicines /\ ~owns(req'.user, x)) =>
          /\ inventory(x)' = inventory(x)
          /\ \A m \in inventory(x) : medicines'[m] = medicines[m]]_vars

\* ------------------------------------------------------ claims: lookups
\* C26: GET /api/pharmacies/mypharmacy from a pharmacy user is answered by
\* getMyPharmacy: with a pharmacy that user owns, or with NotFound when the user
\* owns none; the handler of /:id does not take it.
C26_MyPharmacyServed ==
  (req.route = "GET /api/pharmacies/mypharmacy" /\ role[req.user] = "pharmacy") =>
     /\ dispatch(<<"mypharmacy">>) = "getMyPharmacy"
     /\ IF ownsNone(req.user) THEN NotFound(res)
        ELSE res.status = 200 /\ \E x \in PharmacyIds : owns(req.user, x) /\ res.data = pharmacies[x]

\* ------------------------------------------------- claims: AuthProvider
\* C27: whenever no auth call is in flight, user is set only if token is, the
\* token state is the token in localStorage, and right after a logout user,
\* token state and stored token are all empty.
C27_SessionConsistent ==
  (auth.mounted /\ auth.pending = {}) =>
     /\ auth.user # null => auth.token # null
     /\ auth.token = auth.localStorage
     /\ auth.last = "logout" =>
          auth.user = null /\ auth.token = null /\ auth.localStorage = null

====
